---- MODULE Spec2Model ----
(***************************************************************************)
(* State-machine model of SimpleRecipeQueue (src/main.py): the task        *)
(* registry guarded by one lock, the bounded work queue, the lazily        *)
(* started worker loop, the per-task executor threads, the retention       *)
(* sweeper run from get_task_status, restart_worker and shutdown.          *)
(*                                                                         *)
(* Threads are the callers of the public methods, the worker loops and one *)
(* executor per dispatched task.  Every step is one atomic action; a       *)
(* section run under the lock is two steps (acquire; body and release), so *)
(* that the lock is observably held in between.  A timed acquisition       *)
(* (lock.acquire(timeout=..)) takes the lock when it is free and may time  *)
(* out when another thread holds it; a blocking one (with self.lock) waits.*)
(* Time is the clock read by time.time(), advanced by Tick.                *)
(***************************************************************************)
EXTENDS Integers, Sequences, FiniteSets, TLC

\* ---- bounds of the model
\* add_task calls made
MaxTasks == 2
\* add_task calls made in the specifications that follow one task (SpecSweep, SpecSync)
SweepTasks == 1
\* threads calling the public methods
MaxCallers == 2
\* worker threads ever started: the first one and one per restart_worker
MaxWorkers == 2
\* steps of the clock, of cleanup_interval each
MaxTicks == 5
\* Queue(maxsize=50), scaled down so that the full queue is reached
QueueMaxsize == 1
\* the constructor's parameter max_concurrent
max_concurrent == 1

\* ---- program constants
task_retention_time == 1800
cleanup_interval == 600

TickLen == cleanup_interval
MaxTime == MaxTicks * TickLen

Ids == 1..MaxTasks
Callers == 1..MaxCallers
Workers == 1..MaxWorkers

\* TaskStatus
QUEUED == "queued"
PROCESSING == "processing"
COMPLETED == "completed"
FAILED == "failed"
\* a task id for which no RecipeTask object exists yet
NOTASK == "none"

\* the attribute completion_time is absent
NoTime == 0 - 1

\* lock holders
Free == <<"free", 0>>
Leaked == <<"leaked", 0>>
H(c) == <<"caller", c>>
E(t) == <<"exec", t>>
W(w) == <<"worker", w>>

VARIABLES
    tasks,             \* self.tasks: the ids that are keys of the registry
    task,              \* the RecipeTask objects, by id
    queue,             \* self.queue
    processing_count,  \* self.processing_count
    lock,              \* self.lock: Free, its holder, or Leaked
    running,           \* self.running
    startup_complete,  \* self.startup_complete
    worker_thread,     \* self.worker_thread: index of the thread, 0 for None
    last_cleanup,      \* self.last_cleanup
    now,               \* time.time()
    wpc,               \* worker loops: position of each
    wtask,             \* worker loops: the task each holds after queue.get
    epc,               \* executors (_process_task_safe), one per task: position
    eresult,           \* executors: the local variable result
    cpc,               \* callers: position
    cop,               \* callers: the method being run
    cid,               \* callers: the task id the method works on
    ccur,              \* callers: current_time of _cleanup_old_tasks
    csweep,            \* callers: how the _cleanup_old_tasks of the call ended
    dirty,             \* callers whose iteration over self.tasks was overlapped by an insert
    nrestarts,         \* number of restart_worker calls made
    terminal_at,       \* history: the time at which each task became Completed or Failed
    edelta,            \* history: what each executor has added to processing_count
    efailing,          \* history: the stage that raised in each executor's pipeline,
                       \* "handler" when the fallback handler raised as well
    queue_full,        \* history: the ids whose add_task found the queue full
    ndequeued,         \* history: how many times queue.get has returned each task
    einvoked,          \* history: how many executor threads were started for each task
    sync               \* callers: the last generate_recipe call of each, what its
                       \* pipeline call returned and what the call returned

vars == <<tasks, task, queue, processing_count, lock, running, startup_complete,
          worker_thread, last_cleanup, now, wpc, wtask, epc, eresult,
          cpc, cop, cid, ccur, csweep, dirty, nrestarts, terminal_at, edelta,
          efailing, queue_full, ndequeued, einvoked, sync>>

sharedVars == <<tasks, task, queue, processing_count, lock, running, startup_complete,
                worker_thread, last_cleanup>>
workerVars == <<wpc, wtask, ndequeued, einvoked>>
execVars == <<epc, eresult, edelta, efailing>>
callerVars == <<cpc, cop, cid, ccur, csweep, dirty, nrestarts, queue_full, sync>>

\* RecipeTask before construction
NoTask ==
    [status |-> NOTASK, created_at |-> 0, created_seq |-> 0, completion_time |-> NoTime,
     result |-> "none", error |-> "none", progress |-> "none"]

\* RecipeTask(...) as add_task constructs it.  created_at = time.time() is
\* read from a clock finer than the model's: created_seq is the place of
\* created_at among the creation times, the order of construction
NewTask(t) ==
    [status |-> QUEUED, created_at |-> t,
     created_seq |-> 1 + Cardinality({i \in Ids : task[i].status # NOTASK}),
     completion_time |-> NoTime,
     result |-> "none", error |-> "none", progress |-> "queued"]

NoRet ==
    [kind |-> "none", id |-> 0, status |-> "none", result |-> "none",
     error |-> "none", progress |-> "none", queue_position |-> 0]

Terminal(s) == s \in {COMPLETED, FAILED}

\* no generate_recipe call made yet
NoSync == [out |-> "none", ret |-> "none"]

Init ==
    /\ tasks = {}
    /\ task = [i \in Ids |-> NoTask]
    /\ queue = <<>>
    /\ processing_count = 0
    /\ lock = Free
    /\ running = TRUE
    /\ startup_complete = FALSE
    /\ worker_thread = 0
    /\ last_cleanup = 0
    /\ now = 0
    /\ wpc = [w \in Workers |-> "none"]
    /\ wtask = [w \in Workers |-> 0]
    /\ epc = [i \in Ids |-> "none"]
    /\ eresult = [i \in Ids |-> "none"]
    /\ cpc = [c \in Callers |-> "idle"]
    /\ cop = [c \in Callers |-> "none"]
    /\ cid = [c \in Callers |-> 0]
    /\ ccur = [c \in Callers |-> 0]
    /\ csweep = [c \in Callers |-> "none"]
    /\ dirty = {}
    /\ nrestarts = 0
    /\ terminal_at = [i \in Ids |-> NoTime]
    /\ edelta = [i \in Ids |-> 0]
    /\ efailing = [i \in Ids |-> "none"]
    /\ queue_full = {}
    /\ ndequeued = [i \in Ids |-> 0]
    /\ einvoked = [i \in Ids |-> 0]
    /\ sync = [c \in Callers |-> NoSync]

\* ---- helpers

\* ids handed out by uuid.uuid4() so far
Issued == {i \in Ids : task[i].status # NOTASK} \cup {cid[c] : c \in {d \in Callers : cop[d] = "add"}}

\* a method returns to caller c
Return(c) ==
    /\ cpc' = [cpc EXCEPT ![c] = "idle"]
    /\ cop' = [cop EXCEPT ![c] = "none"]
    /\ cid' = [cid EXCEPT ![c] = 0]
    /\ ccur' = [ccur EXCEPT ![c] = 0]
    /\ csweep' = [csweep EXCEPT ![c] = "none"]
    /\ UNCHANGED sync

Goto(c, p) ==
    /\ cpc' = [cpc EXCEPT ![c] = p]
    /\ UNCHANGED <<cop, cid, ccur, csweep, sync>>

\* the history variable follows the status writes
NoteTerminal(newtask) ==
    terminal_at' = [i \in Ids |->
        IF Terminal(newtask[i].status) /\ ~Terminal(task[i].status)
        THEN now ELSE terminal_at[i]]

\* callers are interchangeable while idle: the idle caller of lowest index
\* makes the next call
MayCall(c) == cpc[c] = "idle" /\ \A d \in Callers : d < c => cpc[d] # "idle"

\* worker threads started so far
Started == {w \in Workers : wpc[w] # "none"}

\* ---- _ensure_worker_started / _start_worker_delayed

\* the first read of startup_complete, made without the lock
EnsureCheck(c) ==
    /\ cpc[c] = "n_check"
    /\ IF startup_complete
       THEN IF cop[c] = "add"
            THEN /\ task' = [task EXCEPT ![cid[c]] = NewTask(now)]
                 /\ Goto(c, "a_lock")
            ELSE /\ Return(c)
                 /\ UNCHANGED task
       ELSE /\ Goto(c, "n_lock")
            /\ UNCHANGED task
    /\ UNCHANGED <<tasks, queue, processing_count, lock, running, startup_complete,
                   worker_thread, last_cleanup, now, workerVars, execVars, dirty,
                   nrestarts, queue_full, terminal_at>>

\* with self.lock: a blocking acquisition
EnsureLock(c) ==
    /\ cpc[c] = "n_lock"
    /\ lock = Free
    /\ lock' = H(c)
    /\ Goto(c, "n_body")
    /\ UNCHANGED <<tasks, task, queue, processing_count, running, startup_complete,
                   worker_thread, last_cleanup, now, workerVars, execVars, dirty,
                   nrestarts, queue_full, terminal_at>>

\* the section under the lock without its second check of startup_complete
EnsureBodyUnchecked(c) ==
    /\ cpc[c] = "n_body"
    /\ LET w == Cardinality(Started) + 1 IN
        /\ w \in Workers
        /\ wpc' = [wpc EXCEPT ![w] = "check"]
        /\ worker_thread' = w
    /\ startup_complete' = TRUE
    /\ lock' = Free
    /\ IF cop[c] = "add"
       THEN /\ task' = [task EXCEPT ![cid[c]] = NewTask(now)]
            /\ Goto(c, "a_lock")
       ELSE /\ Return(c)
            /\ UNCHANGED task
    /\ UNCHANGED <<tasks, queue, processing_count, running, last_cleanup, now,
                   wtask, ndequeued, einvoked, execVars, dirty, nrestarts, queue_full,
                   terminal_at>>

\* the second check under the lock; _start_worker_delayed creates and starts
\* the worker thread; the lock is released
EnsureBody(c) ==
    /\ cpc[c] = "n_body"
    /\ IF ~startup_complete
       THEN LET w == Cardinality(Started) + 1 IN
            /\ w \in Workers
            /\ wpc' = [wpc EXCEPT ![w] = "check"]
            /\ worker_thread' = w
       ELSE UNCHANGED <<wpc, worker_thread>>
    /\ startup_complete' = TRUE
    /\ lock' = Free
    /\ IF cop[c] = "add"
       THEN /\ task' = [task EXCEPT ![cid[c]] = NewTask(now)]
            /\ Goto(c, "a_lock")
       ELSE /\ Return(c)
            /\ UNCHANGED task
    /\ UNCHANGED <<tasks, queue, processing_count, running, last_cleanup, now,
                   wtask, ndequeued, einvoked, execVars, dirty, nrestarts, queue_full,
                   terminal_at>>

\* ---- add_task

\* the call, one of at most n; uuid.uuid4() gives an id no earlier call was
\* given (the id is drawn here, the RecipeTask is constructed after
\* _ensure_worker_started)
AddTaskUpTo(c, n) ==
    /\ MayCall(c)
    /\ Cardinality(Issued) < n
    /\ \E i \in Ids \ Issued :
        /\ \A j \in Ids \ Issued : i <= j
        /\ cid' = [cid EXCEPT ![c] = i]
    /\ cpc' = [cpc EXCEPT ![c] = "n_check"]
    /\ cop' = [cop EXCEPT ![c] = "add"]
    /\ UNCHANGED <<sync, sharedVars, now, workerVars, execVars, ccur, csweep, dirty, nrestarts,
                   queue_full, terminal_at>>

AddTask(c) == AddTaskUpTo(c, MaxTasks)

AddTaskSweep(c) == AddTaskUpTo(c, SweepTasks)

\* the task as the lock-timeout path of add_task leaves it
BusyTask(rec) ==
    [rec EXCEPT !.status = FAILED, !.error = "System busy, please try again"]

\* the insert is lost
StoreTaskLost(reg, i) == reg

\* the registry after self.tasks[task_id] = task
StoreTask(reg, i) == reg \cup {i}

\* lock.acquire(timeout=5.0) succeeds
AddLockAcquire(c) ==
    /\ cpc[c] = "a_lock"
    /\ lock = Free
    /\ lock' = H(c)
    /\ Goto(c, "a_store")
    /\ UNCHANGED <<tasks, task, queue, processing_count, running, startup_complete,
                   worker_thread, last_cleanup, now, workerVars, execVars, dirty,
                   nrestarts, queue_full, terminal_at>>

\* lock.acquire(timeout=5.0) times out: the task is marked Failed and stored
\* without the lock; a thread iterating over self.tasks at that moment may
\* find the dict changed
AddLockTimeout(c) ==
    /\ cpc[c] = "a_lock"
    /\ lock # Free
    /\ task' = [task EXCEPT ![cid[c]] = BusyTask(@)]
    /\ tasks' = StoreTask(tasks, cid[c])
    /\ NoteTerminal(task')
    /\ \/ dirty' = dirty
       \/ \E d \in Callers :
            /\ lock = H(d)
            /\ cpc[d] \in {"s_body", "g_body"}
            /\ dirty' = dirty \cup {d}
    /\ Return(c)
    /\ UNCHANGED <<queue, processing_count, lock, running, startup_complete,
                   worker_thread, last_cleanup, now, workerVars, execVars, nrestarts, queue_full>>

\* the task is stored under the lock and the lock released
AddStore(c) ==
    /\ cpc[c] = "a_store"
    /\ tasks' = StoreTask(tasks, cid[c])
    /\ lock' = Free
    /\ Goto(c, "a_put")
    /\ UNCHANGED <<task, queue, processing_count, running, startup_complete,
                   worker_thread, last_cleanup, now, workerVars, execVars, dirty,
                   nrestarts, queue_full, terminal_at>>

\* the task is put on the queue twice
EnqueueTwice(q, i) == Append(Append(q, i), i)

\* the queue after queue.put
Enqueue(q, i) == Append(q, i)

\* queue.put(task, timeout=1): the task is queued, or the queue is full
AddPut(c) ==
    /\ cpc[c] = "a_put"
    /\ IF Len(queue) < QueueMaxsize
       THEN /\ queue' = Enqueue(queue, cid[c])
            /\ Return(c)
            /\ UNCHANGED queue_full
       ELSE /\ Goto(c, "a_full")
            /\ queue_full' = queue_full \cup {cid[c]}
            /\ UNCHANGED queue
    /\ UNCHANGED <<tasks, task, processing_count, lock, running, startup_complete,
                   worker_thread, last_cleanup, now, workerVars, execVars, dirty,
                   nrestarts, terminal_at>>

\* the handler of the full queue: `with self.lock.acquire(timeout=2.0):`
\* evaluates the acquisition and then fails, a bool being no context manager;
\* the exception leaves add_task through its outer handler, which returns the
\* id.  The task is not written, and a lock that was acquired stays held.
QueueFullLock(l) == IF l = Free THEN Leaked ELSE l

AddFull(c) ==
    /\ cpc[c] = "a_full"
    /\ lock' = QueueFullLock(lock)
    /\ Return(c)
    /\ UNCHANGED <<tasks, task, queue, processing_count, running, startup_complete,
                   worker_thread, last_cleanup, now, workerVars, execVars, dirty,
                   nrestarts, queue_full, terminal_at>>

\* ---- _cleanup_old_tasks, run first by get_task_status

\* getattr(task, 'completion_time', task.created_at)
CompletionTime(rec) ==
    IF rec.completion_time = NoTime THEN rec.created_at ELSE rec.completion_time

\* the scan without its tests of the status
TasksToRemoveByAge(reg, tk, current_time) ==
    {i \in reg : current_time - CompletionTime(tk[i]) > task_retention_time}

\* tasks_to_remove as the scan of the registry computes it
TasksToRemove(reg, tk, current_time) ==
    {i \in reg :
        /\ ~(tk[i].status \in {PROCESSING, QUEUED})
        /\ tk[i].status \in {COMPLETED, FAILED}
        /\ current_time - CompletionTime(tk[i]) > task_retention_time}

\* the interval test with its comparison turned round
SweepDueInverted(current_time, last) == current_time - last < cleanup_interval

\* whether a sweep is due at current_time
SweepDue(current_time, last) == ~(current_time - last < cleanup_interval)

\* the call of get_task_status for id i, an id that add_task has drawn: callers
\* learn ids from add_task only.  The call begins with _cleanup_old_tasks
\* reading the clock: current_time = time.time()
GetTaskStatus(c) ==
    /\ MayCall(c)
    /\ \E i \in Ids :
        /\ task[i].status # NOTASK
        /\ cid' = [cid EXCEPT ![c] = i]
    /\ cpc' = [cpc EXCEPT ![c] = "s_check"]
    /\ cop' = [cop EXCEPT ![c] = "status"]
    /\ ccur' = [ccur EXCEPT ![c] = now]
    /\ UNCHANGED <<sync, sharedVars, now, workerVars, execVars, csweep, dirty, nrestarts,
                   queue_full, terminal_at>>

\* the test of the cleanup interval, reading last_cleanup
SweepCheck(c) ==
    /\ cpc[c] = "s_check"
    /\ IF SweepDue(ccur[c], last_cleanup)
       THEN /\ cpc' = [cpc EXCEPT ![c] = "s_lock"]
            /\ UNCHANGED csweep
       ELSE /\ cpc' = [cpc EXCEPT ![c] = "g_lock"]
            /\ csweep' = [csweep EXCEPT ![c] = "not due"]
    /\ UNCHANGED <<sync, sharedVars, now, workerVars, execVars, cop, cid, ccur, dirty,
                   nrestarts, queue_full, terminal_at>>

\* lock.acquire(timeout=2.0) succeeds
SweepLockAcquire(c) ==
    /\ cpc[c] = "s_lock"
    /\ lock = Free
    /\ lock' = H(c)
    /\ Goto(c, "s_body")
    /\ UNCHANGED <<tasks, task, queue, processing_count, running, startup_complete,
                   worker_thread, last_cleanup, now, workerVars, execVars, dirty,
                   nrestarts, queue_full, terminal_at>>

\* lock.acquire(timeout=2.0) times out: this sweep is skipped
SweepLockTimeout(c) ==
    /\ cpc[c] = "s_lock"
    /\ lock # Free
    /\ cpc' = [cpc EXCEPT ![c] = "g_lock"]
    /\ csweep' = [csweep EXCEPT ![c] = "busy"]
    /\ UNCHANGED <<sync, sharedVars, now, workerVars, execVars, cop, cid, ccur, dirty,
                   nrestarts, queue_full, terminal_at>>

\* the scan and the removals under the lock.  When an insert made without the
\* lock overlapped the scan, the iteration raises RuntimeError: nothing is
\* removed and last_cleanup keeps its value.  The lock is released either way.
SweepBody(c) ==
    /\ cpc[c] = "s_body"
    /\ IF c \in dirty
       THEN /\ UNCHANGED <<tasks, last_cleanup>>
            /\ csweep' = [csweep EXCEPT ![c] = "raised"]
       ELSE /\ tasks' = tasks \ TasksToRemove(tasks, task, ccur[c])
            /\ last_cleanup' = ccur[c]
            /\ csweep' = [csweep EXCEPT ![c] = "done"]
    /\ dirty' = dirty \ {c}
    /\ lock' = Free
    /\ cpc' = [cpc EXCEPT ![c] = "g_lock"]
    /\ UNCHANGED <<sync, task, queue, processing_count, running, startup_complete,
                   worker_thread, now, workerVars, execVars, cop, cid, ccur,
                   nrestarts, queue_full, terminal_at>>

\* ---- get_task_status

\* other_task.created_at < task.created_at, at the resolution of time.time()
CreatedBefore(a, b) ==
    \/ a.created_at < b.created_at
    \/ a.created_at = b.created_at /\ a.created_seq < b.created_seq

\* the count alone, without the position it starts from
QueuePositionFromZero(reg, tk, i) ==
    Cardinality({j \in reg : tk[j].status = QUEUED /\ CreatedBefore(tk[j], tk[i])})

\* queue_position of a queued task: it starts at 1 and is incremented for
\* every queued task of the registry created before this one
QueuePosition(reg, tk, i) ==
    1 + Cardinality({j \in reg : tk[j].status = QUEUED /\ CreatedBefore(tk[j], tk[i])})

\* task_data
TaskData(reg, tk, i) ==
    [kind |-> "status", id |-> i, status |-> tk[i].status, result |-> tk[i].result,
     error |-> tk[i].error, progress |-> tk[i].progress,
     queue_position |-> IF tk[i].status = QUEUED THEN QueuePosition(reg, tk, i) ELSE 0]

\* lock.acquire(timeout=3.0) succeeds
StatusLockAcquire(c) ==
    /\ cpc[c] = "g_lock"
    /\ lock = Free
    /\ lock' = H(c)
    /\ Goto(c, "g_body")
    /\ UNCHANGED <<tasks, task, queue, processing_count, running, startup_complete,
                   worker_thread, last_cleanup, now, workerVars, execVars, dirty,
                   nrestarts, queue_full, terminal_at>>

\* an acquisition without timeout: it has no step to take while the lock is held
StatusLockWaits(c) ==
    /\ cpc[c] = "g_lock"
    /\ lock # Free
    /\ lock = Free
    /\ UNCHANGED vars

\* lock.acquire(timeout=3.0) times out; StatusBusyReturn(c) is returned
StatusLockTimeout(c) ==
    /\ cpc[c] = "g_lock"
    /\ lock # Free
    /\ Return(c)
    /\ UNCHANGED <<sharedVars, now, workerVars, execVars, dirty, nrestarts, queue_full, terminal_at>>

\* what get_task_status returns from the section under the lock: the error
\* for an unknown id, the error of its exception handler when the iteration
\* over self.tasks was overlapped by an insert, or task_data
StatusReturn(c) ==
    LET i == cid[c] IN
    IF i \notin tasks
    THEN [NoRet EXCEPT !.kind = "error", !.id = i, !.error = "Task not found"]
    ELSE IF task[i].status = QUEUED /\ c \in dirty
    THEN [NoRet EXCEPT !.kind = "error", !.id = i, !.error = "Status check failed"]
    ELSE TaskData(tasks, task, i)

\* and what it returns when its lock acquisition timed out
StatusBusyReturn(c) ==
    [NoRet EXCEPT !.kind = "error", !.id = cid[c], !.error = "System busy, please try again"]

\* the read of the task under the lock; StatusReturn(c) is returned
StatusBody(c) ==
    /\ cpc[c] = "g_body"
    /\ Return(c)
    /\ dirty' = dirty \ {c}
    /\ lock' = Free
    /\ UNCHANGED <<tasks, task, queue, processing_count, running, startup_complete,
                   worker_thread, last_cleanup, now, workerVars, execVars,
                   nrestarts, queue_full, terminal_at>>

\* ---- the worker loop of _start_worker_delayed

\* while self.running, then the read of processing_count under the lock
\* (with self.lock blocks until the lock is free) and the test of the ceiling
AtCapacity(count) == count >= max_concurrent

WorkerCheck(w) ==
    /\ wpc[w] = "check"
    /\ IF ~running
       THEN wpc' = [wpc EXCEPT ![w] = "done"]
       ELSE /\ lock = Free
            /\ wpc' = [wpc EXCEPT ![w] = IF AtCapacity(processing_count) THEN "check" ELSE "get"]
    /\ UNCHANGED <<sharedVars, now, wtask, ndequeued, einvoked, execVars, callerVars,
                   terminal_at>>

\* the task is read and left on the queue
DequeuePeek(q) == q

\* the queue after queue.get
Dequeue(q) == Tail(q)

\* queue.get(timeout=1) and the start of the processing thread, which may fail
WorkerGet(w) ==
    /\ wpc[w] = "get"
    /\ IF queue = <<>>
       THEN /\ wpc' = [wpc EXCEPT ![w] = "check"]
            /\ UNCHANGED <<queue, wtask, epc, ndequeued, einvoked>>
       ELSE /\ queue' = Dequeue(queue)
            /\ ndequeued' = [ndequeued EXCEPT ![Head(queue)] = @ + 1]
            /\ \/ /\ epc' = [epc EXCEPT ![Head(queue)] = "e_lock"]
                  /\ einvoked' = [einvoked EXCEPT ![Head(queue)] = @ + 1]
                  /\ wpc' = [wpc EXCEPT ![w] = "check"]
                  /\ UNCHANGED wtask
               \/ /\ wtask' = [wtask EXCEPT ![w] = Head(queue)]
                  /\ wpc' = [wpc EXCEPT ![w] = "fail"]
                  /\ UNCHANGED <<epc, einvoked>>
    /\ UNCHANGED <<tasks, task, processing_count, lock, running, startup_complete,
                   worker_thread, last_cleanup, now, eresult, edelta, efailing, callerVars, terminal_at>>

\* the handler's write without the error message
DispatchFailedWriteNoError(rec) == [rec EXCEPT !.status = FAILED]

\* the task as the handler of a failed thread start leaves it
DispatchFailedWrite(rec) ==
    [rec EXCEPT !.status = FAILED, !.error = "Failed to start processing"]

\* the handler of a failed thread start, under with self.lock
WorkerFail(w) ==
    /\ wpc[w] = "fail"
    /\ lock = Free
    /\ task' = [task EXCEPT ![wtask[w]] = DispatchFailedWrite(@)]
    /\ NoteTerminal(task')
    /\ wtask' = [wtask EXCEPT ![w] = 0]
    /\ wpc' = [wpc EXCEPT ![w] = "check"]
    /\ UNCHANGED <<tasks, queue, processing_count, lock, running, startup_complete,
                   worker_thread, last_cleanup, now, ndequeued, einvoked, execVars,
                   callerVars>>

\* ---- _process_task_safe, the executor of one task

\* the writes of the three sections that change the task
StartWrite(rec) ==
    [rec EXCEPT !.status = PROCESSING, !.progress = "processing"]

\* the Completed write without the assignment of the result
CompletedWriteNoResult(rec, r, t) ==
    [rec EXCEPT !.status = COMPLETED, !.progress = "completed", !.completion_time = t]

CompletedWrite(rec, r, t) ==
    [rec EXCEPT !.status = COMPLETED, !.result = r, !.progress = "completed",
                !.completion_time = t]

FailedWrite(rec, msg, t) ==
    [rec EXCEPT !.status = FAILED, !.error = msg, !.progress = "failed",
                !.completion_time = t]

\* where each timed acquisition of the executor leads when it succeeds
AcquiredPc(p) ==
    CASE p = "e_lock" -> "e_start"
      [] p = "e_fin_lock" -> "e_fin"

\* and when it times out: the first one returns, through the finally block;
\* the one of the finally block skips the decrement
TimedOutPc(p) ==
    CASE p = "e_lock" -> "e_fin_lock"
      [] p = "e_fin_lock" -> "returned"

ExecLockSites == {"e_lock", "e_fin_lock"}

ExecAcquire(t) ==
    /\ epc[t] \in ExecLockSites
    /\ lock = Free
    /\ lock' = E(t)
    /\ epc' = [epc EXCEPT ![t] = AcquiredPc(@)]
    /\ UNCHANGED <<tasks, task, queue, processing_count, running, startup_complete,
                   worker_thread, last_cleanup, now, workerVars, eresult, edelta, efailing,
                   callerVars, terminal_at>>

ExecTimeout(t) ==
    /\ epc[t] \in ExecLockSites
    /\ lock # Free
    /\ epc' = [epc EXCEPT ![t] = TimedOutPc(@)]
    /\ UNCHANGED <<sharedVars, now, workerVars, eresult, edelta, efailing, callerVars, terminal_at>>

\* the same section without its release: the pipeline runs under the lock
ExecStartHolding(t) ==
    /\ epc[t] = "e_start"
    /\ processing_count' = processing_count + 1
    /\ edelta' = [edelta EXCEPT ![t] = @ + 1]
    /\ task' = [task EXCEPT ![t] = StartWrite(@)]
    /\ epc' = [epc EXCEPT ![t] = "e_pipe"]
    /\ UNCHANGED <<tasks, queue, lock, running, startup_complete, worker_thread,
                   last_cleanup, now, workerVars, eresult, efailing, callerVars, terminal_at>>

\* processing_count += 1 and the Processing write, then release; the
\* executor enters _run_minimal_pipeline
ExecStart(t) ==
    /\ epc[t] = "e_start"
    /\ processing_count' = processing_count + 1
    /\ edelta' = [edelta EXCEPT ![t] = @ + 1]
    /\ task' = [task EXCEPT ![t] = StartWrite(@)]
    /\ lock' = Free
    /\ epc' = [epc EXCEPT ![t] = "e_pipe"]
    /\ UNCHANGED <<tasks, queue, running, startup_complete, worker_thread,
                   last_cleanup, now, workerVars, eresult, efailing, callerVars, terminal_at>>

\* _run_minimal_pipeline: the stage that raises, if any.  The import of the
\* generator or the generator itself failing is caught by the outer handler,
\* which returns the fallback recipe, unless the handler itself raises; a
\* failure of a later stage (enhancer, nutrition, quality) is caught where it
\* happens and that stage's fallback is used.
Stages == {"none", "import", "generator", "later"}

\* the outer handler re-raises instead of returning the fallback recipe
RunMinimalPipelineNoFallback(failing, handler_raises) ==
    CASE failing = "none" -> [raised |-> FALSE, result |-> "R"]
      [] failing = "later" -> [raised |-> FALSE, result |-> "R_partial"]
      [] failing \in {"import", "generator"} -> [raised |-> TRUE, result |-> "none"]

RunMinimalPipeline(failing, handler_raises) ==
    CASE failing = "none" -> [raised |-> FALSE, result |-> "R"]
      [] failing = "later" -> [raised |-> FALSE, result |-> "R_partial"]
      [] failing \in {"import", "generator"} ->
            IF handler_raises
            THEN [raised |-> TRUE, result |-> "none"]
            ELSE [raised |-> FALSE, result |-> "R_fallback"]

\* the progress write of the pipeline, made once the generator is imported
PipelineProgress(rec, failing) ==
    IF failing = "import" THEN rec ELSE [rec EXCEPT !.progress = "generating"]

\* the pipeline runs to its end, returning or raising, and the executor makes
\* the acquisition that follows: lock.acquire(timeout=5.0) before the
\* Completed write, lock.acquire(timeout=3.0) in the exception handler.  On a
\* timeout the write is skipped.
ExecPipeline(t) ==
    /\ epc[t] = "e_pipe"
    /\ \E failing \in Stages, handler_raises \in BOOLEAN :
        LET out == RunMinimalPipeline(failing, handler_raises) IN
        /\ failing \in {"none", "later"} => ~handler_raises
        /\ task' = [task EXCEPT ![t] = PipelineProgress(@, failing)]
        /\ eresult' = [eresult EXCEPT ![t] = out.result]
        /\ efailing' = [efailing EXCEPT ![t] = IF handler_raises THEN "handler" ELSE failing]
        /\ IF lock = Free
           THEN /\ lock' = E(t)
                /\ epc' = [epc EXCEPT ![t] = IF out.raised THEN "e_exc" ELSE "e_ok"]
           ELSE /\ lock' = lock
                /\ epc' = [epc EXCEPT ![t] = "e_fin_lock"]
    /\ UNCHANGED <<tasks, queue, processing_count, running, startup_complete,
                   worker_thread, last_cleanup, now, workerVars, edelta, callerVars,
                   terminal_at>>

\* the Completed write, then release
ExecOk(t) ==
    /\ epc[t] = "e_ok"
    /\ task' = [task EXCEPT ![t] = CompletedWrite(@, eresult[t], now)]
    /\ NoteTerminal(task')
    /\ lock' = Free
    /\ epc' = [epc EXCEPT ![t] = "e_fin_lock"]
    /\ UNCHANGED <<tasks, queue, processing_count, running, startup_complete,
                   worker_thread, last_cleanup, now, workerVars, eresult, edelta, efailing,
                   callerVars>>

\* the handler writing Failed on every task constructed, not on its own alone
ExecExcAll(t) ==
    /\ epc[t] = "e_exc"
    /\ task' = [i \in Ids |-> IF task[i].status = NOTASK THEN task[i]
                              ELSE FailedWrite(task[i], "pipeline error", now)]
    /\ NoteTerminal(task')
    /\ lock' = Free
    /\ epc' = [epc EXCEPT ![t] = "e_fin_lock"]
    /\ UNCHANGED <<tasks, queue, processing_count, running, startup_complete,
                   worker_thread, last_cleanup, now, workerVars, eresult, edelta, efailing,
                   callerVars>>

\* the Failed write of the exception handler, then release
ExecExc(t) ==
    /\ epc[t] = "e_exc"
    /\ task' = [task EXCEPT ![t] = FailedWrite(@, "pipeline error", now)]
    /\ NoteTerminal(task')
    /\ lock' = Free
    /\ epc' = [epc EXCEPT ![t] = "e_fin_lock"]
    /\ UNCHANGED <<tasks, queue, processing_count, running, startup_complete,
                   worker_thread, last_cleanup, now, workerVars, eresult, edelta, efailing,
                   callerVars>>

\* the finally block: processing_count -= 1, then release
ExecFin(t) ==
    /\ epc[t] = "e_fin"
    /\ processing_count' = processing_count - 1
    /\ edelta' = [edelta EXCEPT ![t] = @ - 1]
    /\ lock' = Free
    /\ epc' = [epc EXCEPT ![t] = "returned"]
    /\ UNCHANGED <<tasks, task, queue, running, startup_complete, worker_thread,
                   last_cleanup, now, workerVars, eresult, efailing, callerVars, terminal_at>>

\* ---- restart_worker and shutdown

\* self.running = False, before the join
RestartWorker(c) ==
    /\ MayCall(c)
    /\ nrestarts < MaxWorkers - 1
    /\ nrestarts' = nrestarts + 1
    /\ running' = FALSE
    /\ cpc' = [cpc EXCEPT ![c] = "r_join"]
    /\ cop' = [cop EXCEPT ![c] = "restart"]
    /\ UNCHANGED <<sync, tasks, task, queue, processing_count, lock, startup_complete,
                   worker_thread, last_cleanup, now, workerVars, execVars, cid, ccur,
                   csweep, dirty, queue_full, terminal_at>>

\* join(timeout=5) returns, the old loop having exited or not; the flags are reset
RestartReset(c) ==
    /\ cpc[c] = "r_join"
    /\ running' = TRUE
    /\ startup_complete' = FALSE
    /\ Goto(c, "n_check")
    /\ UNCHANGED <<tasks, task, queue, processing_count, lock, worker_thread,
                   last_cleanup, now, workerVars, execVars, dirty, nrestarts, queue_full,
                   terminal_at>>

\* shutdown: self.running = False and a join bounded by its timeout (a call
\* made when running is already False changes nothing)
Shutdown(c) ==
    /\ MayCall(c)
    /\ running
    /\ running' = FALSE
    /\ UNCHANGED <<sync, tasks, task, queue, processing_count, lock, startup_complete,
                   worker_thread, last_cleanup, now, workerVars, execVars, cpc, cop,
                   cid, ccur, csweep, dirty, nrestarts, queue_full, terminal_at>>

\* ---- RecipeAgentTeam.generate_recipe, the synchronous wrapper

\* the failure dict of the wrapper's handler
SyncFailure == "failure"

\* the wrapper returning its failure dict whatever the pipeline returned
SyncReturnFailure(out) == SyncFailure

\* what generate_recipe returns after its pipeline call: the value of the
\* call, or the failure dict of its handler when the call raised
SyncReturn(out) == IF out.raised THEN SyncFailure ELSE out.result

\* the call: a RecipeTask is constructed, which is stored nowhere
GenerateRecipe(c) ==
    /\ MayCall(c)
    /\ cpc' = [cpc EXCEPT ![c] = "y_import"]
    /\ cop' = [cop EXCEPT ![c] = "sync"]
    /\ sync' = [sync EXCEPT ![c] = NoSync]
    /\ UNCHANGED <<sharedVars, now, workerVars, execVars, cid, ccur, csweep, dirty,
                   nrestarts, queue_full, terminal_at>>

\* the imports and the constructors of the agents; when one raises the
\* handler's failure dict is returned and the pipeline is not called
SyncImport(c) ==
    /\ cpc[c] = "y_import"
    /\ \/ /\ cpc' = [cpc EXCEPT ![c] = "y_pipe"]
          /\ UNCHANGED <<cop, sync>>
       \/ /\ cpc' = [cpc EXCEPT ![c] = "idle"]
          /\ cop' = [cop EXCEPT ![c] = "none"]
          /\ sync' = [sync EXCEPT ![c] = [out |-> "none", ret |-> SyncFailure]]
    /\ UNCHANGED <<sharedVars, now, workerVars, execVars, cid, ccur, csweep, dirty,
                   nrestarts, queue_full, terminal_at>>

\* self.queue._run_minimal_pipeline(task) on the calling thread, and the return
SyncPipeline(c) ==
    /\ cpc[c] = "y_pipe"
    /\ \E failing \in Stages, handler_raises \in BOOLEAN :
        LET out == RunMinimalPipeline(failing, handler_raises) IN
        /\ failing \in {"none", "later"} => ~handler_raises
        /\ sync' = [sync EXCEPT ![c] = [out |-> out.result, ret |-> SyncReturn(out)]]
    /\ cpc' = [cpc EXCEPT ![c] = "idle"]
    /\ cop' = [cop EXCEPT ![c] = "none"]
    /\ UNCHANGED <<sharedVars, now, workerVars, execVars, cid, ccur, csweep, dirty,
                   nrestarts, queue_full, terminal_at>>

\* ---- the clock

Tick ==
    /\ now < MaxTime
    /\ now' = now + TickLen
    /\ UNCHANGED <<sharedVars, workerVars, execVars, callerVars, terminal_at>>

\* ---- the system

\* add_task after the call, and get_task_status
CallerSteps(c) ==
    \/ EnsureCheck(c) \/ EnsureLock(c) \/ EnsureBody(c)
    \/ AddLockAcquire(c) \/ AddLockTimeout(c) \/ AddStore(c) \/ AddPut(c)
    \/ GetTaskStatus(c) \/ SweepCheck(c)
    \/ StatusLockAcquire(c) \/ StatusLockTimeout(c) \/ StatusBody(c)

\* the steps of an add_task call after its first
AddSteps(c) ==
    \/ EnsureCheck(c) \/ EnsureLock(c) \/ EnsureBody(c)
    \/ AddLockAcquire(c) \/ AddLockTimeout(c) \/ AddStore(c) \/ AddPut(c) \/ AddFull(c)

\* the steps of a get_task_status call after its first
StatusSteps(c) ==
    \/ SweepCheck(c) \/ SweepLockAcquire(c) \/ SweepLockTimeout(c) \/ SweepBody(c)
    \/ StatusLockAcquire(c) \/ StatusLockTimeout(c) \/ StatusBody(c)

\* the sweep once it is due
SweepSteps(c) == SweepLockAcquire(c) \/ SweepLockTimeout(c) \/ SweepBody(c)

\* the worker loops and the executors
ThreadSteps ==
    \/ \E w \in Workers : WorkerCheck(w) \/ WorkerGet(w) \/ WorkerFail(w)
    \/ \E t \in Ids :
        \/ ExecAcquire(t) \/ ExecTimeout(t) \/ ExecStart(t) \/ ExecPipeline(t)
        \/ ExecOk(t) \/ ExecExc(t) \/ ExecFin(t)

\* The queue within cleanup_interval of its construction: no sweep is due.
Next ==
    \/ \E c \in Callers : AddTask(c) \/ AddFull(c) \/ CallerSteps(c) \/ Shutdown(c)
    \/ ThreadSteps

Spec == Init /\ [][Next]_vars

\* The same with restart_worker called instead of shutdown.
NextRestart ==
    \/ \E c \in Callers :
        \/ AddTask(c) \/ AddFull(c) \/ CallerSteps(c)
        \/ RestartWorker(c) \/ RestartReset(c)
    \/ ThreadSteps

SpecRestart == Init /\ [][NextRestart]_vars

\* The queue over a time long enough for tasks to age out.
NextSweep ==
    \/ \E c \in Callers : AddTaskSweep(c) \/ CallerSteps(c) \/ SweepSteps(c)
    \/ ThreadSteps
    \/ Tick

SpecSweep == Init /\ [][NextSweep]_vars

\* the steps of a generate_recipe call
SyncSteps(c) == GenerateRecipe(c) \/ SyncImport(c) \/ SyncPipeline(c)

\* The queue at work on one task while generate_recipe is called.
NextSync ==
    \/ \E c \in Callers : AddTaskSweep(c) \/ CallerSteps(c) \/ SyncSteps(c)
    \/ ThreadSteps

SpecSync == Init /\ [][NextSync]_vars

\* the steps of one worker loop, and of the executor of one task
WorkerSteps(w) == WorkerCheck(w) \/ WorkerGet(w) \/ WorkerFail(w)

ExecSteps(t) ==
    \/ ExecAcquire(t) \/ ExecTimeout(t) \/ ExecStart(t) \/ ExecPipeline(t)
    \/ ExecOk(t) \/ ExecExc(t) \/ ExecFin(t)

\* The queue never shut down.
NextLive ==
    \/ \E c \in Callers : AddTask(c) \/ AddFull(c) \/ CallerSteps(c)
    \/ ThreadSteps

\* Every thread is scheduled: a call under way returns, the worker loop goes
\* round, an executor goes on and its pipeline call returns or raises.  A
\* thread waiting in `with self.lock` obtains the lock when the lock is
\* released again and again (strong fairness); the executor, whose
\* acquisitions are all timed, always has a step to take.
Fairness ==
    /\ \A c \in Callers : SF_vars(AddSteps(c) \/ StatusSteps(c))
    /\ \A w \in Workers : SF_vars(WorkerSteps(w))
    /\ \A t \in Ids : WF_vars(ExecSteps(t))

SpecLive == Init /\ [][NextLive]_vars /\ Fairness

\* ---- properties of the queue

Processing == {i \in Ids : task[i].status = PROCESSING}

\* the ids add_task has returned
Returned(i) ==
    /\ task[i].status # NOTASK
    /\ \A c \in Callers : ~(cop[c] = "add" /\ cid[c] = i)

\* every task submitted is Completed or Failed and no executor is running
AllTerminal ==
    /\ \E i \in Ids : task[i].status # NOTASK
    /\ \A i \in Ids : task[i].status # NOTASK => Terminal(task[i].status)
    /\ \A i \in Ids : epc[i] \in {"none", "returned"}
    /\ \A c \in Callers : cop[c] # "add"

\* C1: the number of tasks whose status is Processing never exceeds
\* max_concurrent.
C1_CeilingRespected == Cardinality(Processing) <= max_concurrent

\* C2: once every submitted task is Completed or Failed and every executor
\* has returned, processing_count is 0.
C2_CounterBackToZero == AllTerminal => processing_count = 0

\* C3: an executor that has returned has changed processing_count by zero in
\* all, whichever of its lock acquisitions timed out.
C3_ExecutorNetZero == \A t \in Ids : epc[t] = "returned" => edelta[t] = 0

\* C4: get_task_status for an id that add_task returned when the queue was
\* full reports status Failed with the queue-full error.
C4_QueueFullReportedFailed ==
    \A c \in Callers :
        (cpc[c] = "g_body" /\ cid[c] \in queue_full /\ Returned(cid[c])) =>
            /\ StatusReturn(c).status = FAILED
            /\ StatusReturn(c).error = "Queue full"

\* C5: every id add_task has returned is a key of the registry, also when
\* the calls overlap, and the lookup of get_task_status finds its task: no
\* submission is lost.  (Ids are distinct as uuid4 makes them.)
C5_ReturnedIdsRegistered ==
    /\ \A i \in Ids : Returned(i) => i \in tasks
    /\ \A c \in Callers :
        (cpc[c] = "g_body" /\ Returned(cid[c])) =>
            StatusReturn(c).error # "Task not found"

\* a second add_task call has returned while the first is still under way, its
\* task stored
C5_Witness ==
    \E c \in Callers :
        /\ cop[c] = "add" /\ cpc[c] = "a_put" /\ cid[c] = 1
        /\ Returned(2) /\ 2 \in tasks

\* the place of a status in Queued, Processing, Completed | Failed
Rank(st) ==
    CASE st = NOTASK -> 0
      [] st = QUEUED -> 1
      [] st = PROCESSING -> 2
      [] st \in {COMPLETED, FAILED} -> 3

\* C6: every change of a task's status moves it forward in Queued,
\* Processing, Completed | Failed; a Completed or Failed task never changes
\* status again.
C6_StatusMonotonic ==
    [][\A i \in Ids :
        task'[i].status # task[i].status => Rank(task[i].status) < Rank(task'[i].status)]_vars

\* a task has run to Completed on a queue whose worker was restarted
C6_Witness ==
    /\ wpc[2] # "none"
    /\ \E i \in Ids : task[i].status = COMPLETED /\ epc[i] = "returned"

\* C7: once the executor that made a task Processing has returned, the task
\* is Completed or Failed, not Processing.
C7_ReturnedIsTerminal ==
    \A t \in Ids :
        (epc[t] = "returned" /\ task[t].status # QUEUED) => Terminal(task[t].status)

C9_SweepSparesActive ==
    [][\A i \in tasks : i \notin tasks' => Terminal(task[i].status)]_vars

\* a sweep has run over a Queued or Processing task older than the retention
\* time, and the task is in the registry
C9_Witness ==
    \E i \in tasks :
        /\ task[i].status \in {QUEUED, PROCESSING}
        /\ last_cleanup - task[i].created_at > task_retention_time

\* C10: a task is removed from the registry no sooner than
\* task_retention_time after it became Completed or Failed; stated for the
\* tasks that became Failed by a dispatch failure in the worker loop.
C10_RetainedAfterTerminal ==
    [][\A i \in tasks :
        (i \notin tasks' /\ task[i].error = "Failed to start processing") =>
            now - terminal_at[i] >= task_retention_time]_vars

\* a get_task_status call c for a task the executor made Completed or Failed
\* at time T, begun later than T + task_retention_time + cleanup_interval
LateStatusCall(c) ==
    /\ cop[c] = "status"
    /\ cpc[c] \in {"g_lock", "g_body"}
    /\ task[cid[c]].completion_time # NoTime
    /\ ccur[c] > task[cid[c]].completion_time + task_retention_time + cleanup_interval

\* C11 as claimed: such a call that obtained the lock for its sweep returns
\* the error 'Task not found'.
C11_LateCallNotFound ==
    [][\A c \in Callers :
        (LateStatusCall(c) /\ csweep[c] \in {"done", "raised"} /\ cpc'[c] = "idle") =>
            (cpc[c] = "g_body" /\ StatusReturn(c).error = "Task not found")]_vars

\* C11 as amended: such a call whose sweep was not due or ran its scan to the
\* end, and which obtained the lock for its lookup, returns 'Task not found'.
C11_LateLookupNotFound ==
    \A c \in Callers :
        (LateStatusCall(c) /\ csweep[c] \in {"done", "not due"} /\ cpc[c] = "g_body") =>
            StatusReturn(c).error = "Task not found"

\* the sweep of such a call has evicted the task and the call holds the lock
\* for its lookup
C11_Witness ==
    \E c \in Callers :
        /\ LateStatusCall(c) /\ csweep[c] = "done" /\ cpc[c] = "g_body"
        /\ task[cid[c]].status = COMPLETED
        /\ cid[c] \notin tasks

\* C12: a get_task_status call always has a step of its own to take, whatever
\* the other threads do: it never waits.  While another thread holds the lock
\* its lookup acquisition times out and the call returns the 'System busy'
\* error.  No step of the call changes the status, result, error or progress
\* of a task.
C12_StatusNeverBlocks ==
    /\ [](\A c \in Callers : cop[c] = "status" =>
            /\ ENABLED StatusSteps(c)
            /\ (cpc[c] = "g_lock" /\ lock # Free) =>
                    /\ ENABLED StatusLockTimeout(c)
                    /\ StatusBusyReturn(c).error = "System busy, please try again")
    /\ [][\A c \in Callers :
            (cop[c] = "status" /\ cpc'[c] # cpc[c]) => task' = task]_vars

\* the sweep of a call was skipped because another thread held the lock, and
\* the lock is still held when the call comes to its lookup
C12_Witness ==
    \E c \in Callers :
        /\ cop[c] = "status" /\ cpc[c] = "g_lock" /\ csweep[c] = "busy"
        /\ lock # Free

\* C13: the lock is never held by an executor while its pipeline runs, and an
\* add_task call under way always has a step of its own to take, whatever the
\* executors do, except while it waits in _ensure_worker_started for the
\* lock, which is then held by a thread that is not inside the pipeline.
C13_AddTaskNeverWaitsForPipeline ==
    /\ \A t \in Ids : epc[t] = "e_pipe" => lock # E(t)
    /\ \A c \in Callers : cop[c] = "add" =>
            \/ ENABLED AddSteps(c)
            \/ cpc[c] = "n_lock" /\ lock # Free

\* an add_task call has returned the id of its queued task while the executor
\* of an earlier task is inside the pipeline
C13_Witness ==
    /\ epc[1] = "e_pipe"
    /\ Returned(2) /\ 2 \in tasks /\ queue = <<2>>

C15_FifoByCreation ==
    [][\A a, b \in Ids :
        (/\ ndequeued'[b] > ndequeued[b]
         /\ task[a].status # NOTASK
         /\ task[b].created_seq < task[a].created_seq) => ndequeued[a] = 0]_vars

\* the Queued tasks of the registry created before task i
QueuedBefore(i) ==
    {j \in tasks : task[j].status = QUEUED /\ task[j].created_seq < task[i].created_seq}

\* C16 as claimed: the queue_position returned for a Queued task is the
\* number of Queued tasks of the registry with an earlier creation time.
C16_PositionIsCount ==
    \A c \in Callers :
        (cpc[c] = "g_body" /\ StatusReturn(c).status = QUEUED) =>
            StatusReturn(c).queue_position = Cardinality(QueuedBefore(cid[c]))

\* C16 as amended: the queue_position returned for a Queued task is 1 plus
\* that number; for a task in any other status no queue_position is returned
\* (None, written 0 here).
C16_PositionIsOnePlusCount ==
    \A c \in Callers :
        (cpc[c] = "g_body" /\ StatusReturn(c).kind = "status") =>
            StatusReturn(c).queue_position =
                IF task[cid[c]].status = QUEUED
                THEN 1 + Cardinality(QueuedBefore(cid[c]))
                ELSE 0

\* get_task_status returns position 2 for a Queued task behind another one
C16_Witness ==
    \E c \in Callers :
        /\ cpc[c] = "g_body" /\ StatusReturn(c).status = QUEUED
        /\ StatusReturn(c).queue_position = 2
        /\ Cardinality(QueuedBefore(cid[c])) = 1

\* C17: for every task of the registry: Queued or Processing, it has neither
\* result nor error; Completed, it has a result and no error; Failed, it has
\* an error and no result.
C17_ResultErrorMatchStatus ==
    \A i \in tasks :
        /\ task[i].status \in {QUEUED, PROCESSING} =>
                (task[i].result = "none" /\ task[i].error = "none")
        /\ task[i].status = COMPLETED =>
                (task[i].result # "none" /\ task[i].error = "none")
        /\ task[i].status = FAILED =>
                (task[i].error # "none" /\ task[i].result = "none")

\* the registry holds a task the executor made Completed and one it made Failed
C17_Witness ==
    \E i, j \in tasks :
        /\ task[i].status = COMPLETED /\ task[i].result = "R"
        /\ task[j].status = FAILED /\ task[j].error = "pipeline error"

\* C18: when the pipeline call of a task has returned a value and the
\* executor has returned, the task is Completed, its result is that value
\* and its completion_time is not earlier than its created_at.
C18_ReturnedValueCompletes ==
    \A t \in Ids :
        (epc[t] = "returned" /\ eresult[t] # "none") =>
            /\ task[t].status = COMPLETED
            /\ task[t].result = eresult[t]
            /\ task[t].completion_time >= task[t].created_at

\* C19: once running is False no task is removed from the queue and no
\* executor thread is started.
C19_NoDequeueAfterShutdown ==
    [][~running => (ndequeued' = ndequeued /\ einvoked' = einvoked)]_vars

\* C20: queue.get returns each task once at most and one executor thread at
\* most is started for it, also with the worker loops that restart_worker
\* leaves running side by side.
C20_DequeuedAtMostOnce ==
    \A t \in Ids :
        /\ ndequeued[t] <= 1
        /\ einvoked[t] <= ndequeued[t]

\* two worker loops are alive after a restart and each task has been
\* dequeued once
C20_Witness ==
    /\ \A w \in {1, 2} : wpc[w] \notin {"none", "done"}
    /\ \A t \in Ids : ndequeued[t] = 1

\* the task is on the work queue
InQueue(t) == \E k \in 1..Len(queue) : queue[k] = t

\* C21: every task add_task placed on the queue is Completed or Failed in
\* the end, the worker not being shut down and every thread being scheduled
\* fairly; a task taken off the queue does not stay Queued for ever.
C21_AcceptedTaskTerminates ==
    \A t \in Ids : (InQueue(t) \/ ndequeued[t] > 0) ~> Terminal(task[t].status)

\* C22: the handler of a failed thread start makes the dequeued task, which
\* is Queued, Failed with the error message, leaves every other task, the
\* registry, the queue and processing_count as they are, and the worker loop
\* goes back to its loop test; no executor ever runs for that task, so that
\* it is never Processing.
C22_DispatchFailureFailsTask ==
    /\ [](\A t \in Ids : task[t].error = "Failed to start processing" =>
            /\ task[t].status = FAILED
            /\ einvoked[t] = 0 /\ epc[t] = "none" /\ edelta[t] = 0)
    /\ [][\A w \in Workers : (wpc[w] = "fail" /\ wpc'[w] # "fail") =>
            /\ task[wtask[w]].status = QUEUED
            /\ task'[wtask[w]].status = FAILED
            /\ task'[wtask[w]].error = "Failed to start processing"
            /\ \A i \in Ids \ {wtask[w]} : task'[i] = task[i]
            /\ processing_count' = processing_count
            /\ tasks' = tasks /\ queue' = queue
            /\ wpc'[w] = "check"]_vars

\* the thread of task 1 could not be started; the same worker loop has since
\* dequeued task 2 and started its executor
C22_Witness ==
    /\ task[1].status = FAILED /\ task[1].error = "Failed to start processing"
    /\ ndequeued[2] = 1 /\ einvoked[2] = 1
    /\ Cardinality(Started) = 1

\* C23: every acquisition of the lock is timed: while another thread holds
\* the lock, an add_task call under way (its _ensure_worker_started
\* included), a worker loop at its ceiling check or in its dispatch-failure
\* handler, and an executor at one of its acquisitions each have a step to
\* take, the one of the timeout.
C23_EveryAcquisitionBounded ==
    lock # Free =>
        /\ \A c \in Callers : cop[c] = "add" => ENABLED AddSteps(c)
        /\ \A w \in Workers : wpc[w] \in {"check", "fail"} => ENABLED WorkerSteps(w)
        /\ \A t \in Ids : epc[t] \in ExecLockSites => ENABLED ExecSteps(t)

\* C24: the registry is changed only by a thread that holds the lock, and
\* no iteration over the registry is overlapped by an insert.
C24_RegistryUnderLock ==
    /\ [](dirty = {})
    /\ [][tasks' # tasks =>
            \E c \in Callers : cpc'[c] # cpc[c] /\ lock = H(c)]_vars

\* C25: a sweep pass scans only when its current_time is at least
\* cleanup_interval after last_cleanup, the current_time of the last pass
\* that ran; a call whose test finds the interval not elapsed changes
\* nothing; last_cleanup never decreases.
C25_SweepsIntervalApart ==
    [][/\ last_cleanup' >= last_cleanup
       /\ \A c \in Callers :
            /\ (cpc[c] = "s_body" /\ cpc'[c] # "s_body") =>
                    SweepDue(ccur[c], last_cleanup)
            /\ (cpc[c] = "s_check" /\ cpc'[c] = "g_lock") =>
                    /\ ~SweepDue(ccur[c], last_cleanup)
                    /\ tasks' = tasks /\ task' = task /\ last_cleanup' = last_cleanup]_vars

\* C26: a step of the executor of task t leaves every other task's record,
\* the registry, the queue and the worker loops as they are, whether the
\* pipeline returned or raised.
C26_ExecutorFrame ==
    [][\A t \in Ids : (epc[t] # "none" /\ epc'[t] # epc[t]) =>
            /\ \A i \in Ids \ {t} : task'[i] = task[i]
            /\ tasks' = tasks /\ queue' = queue
            /\ wpc' = wpc /\ wtask' = wtask /\ running' = running]_vars

\* the pipeline of task 1 raised and its executor wrote Failed and returned;
\* the worker loop has gone on and task 2 has been run to Completed
C26_Witness ==
    /\ epc[1] = "returned" /\ efailing[1] = "handler" /\ task[1].status = FAILED
    /\ epc[2] = "returned" /\ task[2].status = COMPLETED /\ task[2].error = "none"
    /\ wpc[1] \in {"check", "get"}

\* no call of a public method is under way and no executor is running (the
\* worker loop holds the lock within one step only)
Quiescent ==
    /\ \A c \in Callers : cpc[c] = "idle"
    /\ \A t \in Ids : epc[t] \in {"none", "returned"}

\* C27: when no operation is in progress the lock is free: every operation
\* that acquired it has released it.
C27_LockReleased == Quiescent => lock = Free

\* C28: processing_count is never negative and never less than the number
\* of tasks whose status is Processing.
C28_CountBoundsProcessing ==
    /\ processing_count >= 0
    /\ Cardinality(Processing) <= processing_count

\* a restart_worker call has been made and none is under way
RestartReturned == nrestarts > 0 /\ \A c \in Callers : cop[c] # "restart"

\* C29: once restart_worker has returned, the only worker loop that takes a
\* task off the queue is the one it started, self.worker_thread.
C29_OldWorkerStops ==
    [][\A w \in Workers :
        (/\ RestartReturned
         /\ wpc[w] = "get" /\ wpc'[w] # "get"
         /\ ndequeued' # ndequeued) => w = worker_thread]_vars

\* C30: no step of a generate_recipe call changes the registry, a task, the
\* work queue, processing_count, the lock or the worker's state
\* (startup_complete, running, worker_thread, the worker loops); and when
\* its pipeline call returned a value the call returns that value.
C30_SyncBypassesQueue ==
    /\ [](\A c \in Callers : sync[c].out # "none" => sync[c].ret = sync[c].out)
    /\ [][\A c \in Callers :
            ((cop[c] = "sync" \/ cop'[c] = "sync") /\ cpc'[c] # cpc[c]) =>
                /\ UNCHANGED <<tasks, task, queue, processing_count, lock>>
                /\ UNCHANGED <<startup_complete, running, worker_thread, wpc, wtask>>
                /\ UNCHANGED <<epc, ndequeued, einvoked>>]_vars

\* generate_recipe has returned the pipeline's recipe while the queue's
\* executor was inside the pipeline for a queued task
C30_Witness ==
    \E c \in Callers :
        /\ sync[c].out = "R" /\ sync[c].ret = "R" /\ cop[c] = "none"
        /\ epc[1] = "e_pipe" /\ processing_count = 1 /\ tasks = {1}

====
